---- MODULE Spec2Model ----
(***************************************************************************)
(* A model of readable-app/readability.rs: the capture/bubble walk of      *)
(* Readability::readify over a mutable DOM arena, candidate scoring and    *)
(* selection (src/src/lib.rs), and the metadata extractor                  *)
(* (src/src/metadata.rs).                                                  *)
(*                                                                         *)
(* Modelling conventions                                                   *)
(*  - The DOM is an arena: dom is a sequence of node records and a node's  *)
(*    identity is its index.  parent = 0 stands for Option::None.          *)
(*  - A string is a sequence of one-character strings; the characters are  *)
(*    " " (whitespace), "," (comma) and letters.                           *)
(*  - An attribute map is a record over AttrNames; the value None stands   *)
(*    for an attribute that is not in the map.                             *)
(*  - A regex is modelled by the set of values of the attribute universe   *)
(*    that it matches (the table was computed from the patterns of         *)
(*    lib.rs:88-119).                                                      *)
(*  - f32 scores are modelled as exact rationals: content_score is kept    *)
(*    as an integer number of sixths (the divisors are 1, 2 and 6).        *)
(***************************************************************************)
EXTENDS Integers, Sequences, FiniteSets, TLC

VARIABLES
    dom,            \* the document tree: Seq of node records (kuchikiki nodes)
    info,           \* Readability.info: NodeCache<NodeInfo>, node id -> record
    candidates,     \* Readability.candidates: Vec<ElemRef>
    byline,         \* Readability.byline: Option<String>
    cfg,            \* strip_unlikelys, weight_classes, clean_conditionally,
                    \* clean_attributes, base_url
    top_level,      \* readify's argument
    current,        \* readify's local `current`
    bubbling,       \* readify's local `bubbling`
    pc,             \* position in readify / parse
    result,         \* the node readify returns (0 until it returns)
    trace,          \* history: the steps taken so far, one event per step
    steps,          \* history: the number of steps taken so far
    twin,           \* the second run of a pair of parses (junk stripped)
    meta            \* metadata::extract: its input document and its output

vars == <<dom, info, candidates, byline, cfg, top_level, current, bubbling,
          pc, result, trace, steps, twin, meta>>

None == "<None>"

(***************************************************************************)
(* Strings                                                                 *)
(***************************************************************************)

\* char::is_whitespace on the model's alphabet
is_whitespace(ch) == ch = " "

RECURSIVE TrimStart(_)
TrimStart(s) ==
    IF s # <<>> /\ is_whitespace(Head(s)) THEN TrimStart(Tail(s)) ELSE s

RECURSIVE TrimEnd(_)
TrimEnd(s) ==
    IF s # <<>> /\ is_whitespace(s[Len(s)])
    THEN TrimEnd(SubSeq(s, 1, Len(s) - 1)) ELSE s

\* a mutant of trim: the trailing whitespace stays
trim_start_only(s) == TrimStart(s)

\* str::trim
trim(s) == TrimEnd(TrimStart(s))

\* count_chars' loop from position i of the trimmed text t.  ok is FALSE
\* when iter.peek().unwrap() is reached at the end of the text.
RECURSIVE CountFrom(_, _, _, _, _)
CountFrom(t, i, char_cnt, comma_cnt, ok) ==
    IF i > Len(t) THEN [chars |-> char_cnt, commas |-> comma_cnt, ok |-> ok]
    ELSE LET ch == t[i]
             atEnd == i = Len(t)
         IN IF is_whitespace(ch)
            THEN IF atEnd
                 THEN [chars |-> char_cnt, commas |-> comma_cnt, ok |-> FALSE]
                 ELSE CountFrom(t, i + 1,
                                IF ~is_whitespace(t[i + 1]) THEN char_cnt + 1
                                                            ELSE char_cnt,
                                comma_cnt, ok)
            ELSE IF ch = ","
            THEN IF atEnd \/ t[i + 1] # ","
                 THEN CountFrom(t, i + 1, char_cnt + 1, comma_cnt + 1, ok)
                 ELSE CountFrom(t, i + 1, char_cnt, comma_cnt, ok)
            ELSE CountFrom(t, i + 1, char_cnt + 1, comma_cnt, ok)

count_chars(text) == CountFrom(trim(text), 1, 0, 0, TRUE)

\* n copies of the character ch
Rep(ch, n) == [i \in 1..n |-> ch]

(***************************************************************************)
(* The DOM arena (kuchikiki NodeRef operations used by lib.rs)             *)
(***************************************************************************)

AttrNames == {"class", "id", "rel", "style", "href", "src"}

NoAttrs == [class |-> None, id |-> None, rel |-> None, style |-> None,
            href |-> None, src |-> None]

Ids(d) == 1..Len(d)

is_element(d, n) == d[n].kind = "element"
is_text(d, n) == d[n].kind = "text"

\* NodeRefExt::is
is(d, n, name) == is_element(d, n) /\ d[n].name = name

IndexOf(s, x) == CHOOSE i \in 1..Len(s) : s[i] = x

Without(s, x) == SelectSeq(s, LAMBDA y : y # x)

\* NodeRef::detach
detach(d, n) ==
    LET p == d[n].parent
    IN IF p = 0 THEN d
       ELSE [d EXCEPT ![p].kids = Without(@, n), ![n].parent = 0]

\* NodeRef::append
append(d, p, c) ==
    LET d1 == detach(d, c)
    IN [d1 EXCEPT ![p].kids = Append(@, c), ![c].parent = p]

\* NodeRef::insert_before: new becomes the sibling before ref.  When ref has
\* no parent the two are only linked as siblings, which NodeRefExt::replace
\* undoes at once by detaching ref.
insert_before(d, ref, new) ==
    LET d1 == detach(d, new)
        p == d1[ref].parent
    IN IF p = 0 THEN d1
       ELSE LET i == IndexOf(d1[p].kids, ref)
            IN [d1 EXCEPT ![p].kids = SubSeq(@, 1, i - 1) \o <<new>>
                                          \o SubSeq(@, i, Len(@)),
                          ![new].parent = p]

\* NodeRefExt::remove
remove(d, n) == detach(d, n)

\* a mutant of replace: the new node becomes the last child of old's parent
replace_at_end(d, old, new) ==
    IF d[old].parent = 0 THEN remove(detach(d, new), old)
    ELSE append(remove(d, old), d[old].parent, new)

\* NodeRefExt::replace
replace(d, old, new) == remove(insert_before(d, old, new), old)

\* NodeRef::new_element: the new node is the last of the arena
new_element(d, name, attrs) ==
    Append(d, [kind |-> "element", name |-> name, attrs |-> attrs,
               text |-> <<>>, parent |-> 0, kids |-> <<>>])

RECURSIVE AppendAll(_, _, _)
AppendAll(d, p, cs) ==
    IF cs = <<>> THEN d ELSE AppendAll(append(d, p, Head(cs)), p, Tail(cs))

\* NodeRefExt::rename: [dom, node]; node is the replacement
rename(d, n, name) ==
    IF is_element(d, n)
    THEN LET r == Len(d) + 1
             d1 == new_element(d, name, d[n].attrs)
             d2 == AppendAll(d1, r, d[n].kids)
         IN [dom |-> replace(d2, n, r), node |-> r]
    ELSE [dom |-> d, node |-> n]

\* NodeRef::descendants, in document order (the node itself excluded)
RECURSIVE descendants(_, _)
descendants(d, n) ==
    LET RECURSIVE Over(_)
        Over(ks) == IF ks = <<>> THEN <<>>
                    ELSE <<Head(ks)>> \o descendants(d, Head(ks)) \o Over(Tail(ks))
    IN Over(d[n].kids)

\* NodeRef::ancestors, nearest first (the node itself excluded)
RECURSIVE ancestors(_, _)
ancestors(d, n) ==
    IF d[n].parent = 0 THEN <<>>
    ELSE <<d[n].parent>> \o ancestors(d, d[n].parent)

Range(s) == {s[i] : i \in 1..Len(s)}

\* NodeRef::text_contents
RECURSIVE Concat(_, _)
Concat(d, ns) ==
    IF ns = <<>> THEN <<>>
    ELSE (IF is_text(d, Head(ns)) THEN d[Head(ns)].text ELSE <<>>)
         \o Concat(d, Tail(ns))

text_contents(d, n) == Concat(d, <<n>> \o descendants(d, n))

\* NodeRefExt::previous_element: the nearest preceding sibling element, or 0
previous_element(d, n) ==
    LET p == d[n].parent
    IN IF p = 0 THEN 0
       ELSE LET ks == d[p].kids
                i == IndexOf(ks, n)
                before == {j \in 1..(i - 1) : is_element(d, ks[j])}
            IN IF before = {} THEN 0
               ELSE ks[CHOOSE j \in before : \A k \in before : k <= j]

\* a mutant of first_child: the walk never descends
first_child_none(d, n) == 0

\* NodeRef::first_child, or 0
first_child(d, n) == IF d[n].kids = <<>> THEN 0 ELSE Head(d[n].kids)

next_sibling(d, n) ==
    LET p == d[n].parent
    IN IF p = 0 THEN 0
       ELSE LET i == IndexOf(d[p].kids, n)
            IN IF i = Len(d[p].kids) THEN 0 ELSE d[p].kids[i + 1]

(***************************************************************************)
(* Regexes (lib.rs:88-119) on the attribute universe                       *)
(***************************************************************************)

\* Option<&str>::unwrap_or("")
unwrap_or_empty(v) == IF v = None THEN "" ELSE v

UNLIKELY_CANDIDATE(s) == s \in {"sidebar", "pagination", "main-sidebar", "social"}
MAYBE_CANDIDATE(s) == s \in {"main-sidebar"}
POSITIVE(s) == s \in {"content", "pagination", "main-sidebar"}
NEGATIVE(s) == s \in {"sidebar", "share", "main-sidebar"}
VIDEO(s) == s \in {"//youtube.com/v"}
PROTOCOL(s) == s \in {"http://other/x", "mailto:a"}

(***************************************************************************)
(* Capture stage                                                           *)
(***************************************************************************)

NoByline == [some |-> FALSE, val |-> <<>>]

BylineLimit == 100

extract_byline(d, elem) ==
    LET rel == unwrap_or_empty(d[elem].attrs.rel)
        is_byline == rel = "author"
        text == trim(text_contents(d, elem))
    IN IF is_byline /\ 0 < Len(text) /\ Len(text) < BylineLimit
       THEN [some |-> TRUE, val |-> text]
       ELSE NoByline

is_unlikely_candidate(d, elem) ==
    IF d[elem].name \in {"a", "body"} THEN FALSE
    ELSE LET classes == unwrap_or_empty(d[elem].attrs.class)
             id == unwrap_or_empty(d[elem].attrs.id)
         IN /\ (UNLIKELY_CANDIDATE(classes) \/ UNLIKELY_CANDIDATE(id))
            /\ ~(MAYBE_CANDIDATE(classes) \/ MAYBE_CANDIDATE(id))

ElementKids(d, n) == SelectSeq(d[n].kids, LAMBDA c : is_element(d, c))
TextKids(d, n) == SelectSeq(d[n].kids, LAMBDA c : is_text(d, c))

\* a mutant of has_single_p: the text children are not looked at
has_single_p_any_text(d, node) ==
    LET elems == ElementKids(d, node)
    IN Len(elems) = 1 /\ is(d, elems[1], "p")

has_single_p(d, node) ==
    LET elems == ElementKids(d, node)
    IN /\ Len(elems) = 1
       /\ is(d, elems[1], "p")
       /\ \A t \in Range(TextKids(d, node)) : trim(d[t].text) = <<>>

BlockTags == {"a", "blockquote", "dl", "div", "img", "ol", "p", "pre", "table",
              "ul", "select"}

has_block_elem(d, node) ==
    \E e \in Range(descendants(d, node)) :
        is_element(d, e) /\ d[e].name \in BlockTags

\* the else branch of transform_div, over the children as they were at entry
RECURSIVE WrapTexts(_, _)
WrapTexts(d, cs) ==
    IF cs = <<>> THEN d
    ELSE LET child == Head(cs)
         IN IF is_text(d, child) /\ trim(d[child].text) # <<>>
            THEN LET p == Len(d) + 1
                     d1 == new_element(d, "p", NoAttrs)
                     d2 == replace(d1, child, p)
                 IN WrapTexts(append(d2, p, child), Tail(cs))
            ELSE WrapTexts(d, Tail(cs))

transform_div(d, div) ==
    IF has_single_p(d, div)
    THEN replace(d, div, ElementKids(d, div)[1])
    ELSE IF ~has_block_elem(d, div)
    THEN rename(d, div, "p").dom
    ELSE WrapTexts(d, d[div].kids)

\* the first match of on_capturing's loop body: is the child useless?
IsUseless(d, child) ==
    CASE d[child].kind \in {"comment", "fragment"} -> TRUE
      [] d[child].kind = "text" -> trim(d[child].text) = <<>>
      [] d[child].kind = "element" -> d[child].name \in {"script", "style", "noscript"}
      [] OTHER -> FALSE

\* one pass of on_capturing's loop body; st is [dom, byline]
CaptureChild(st, c, child) ==
    LET d1 == IF IsUseless(st.dom, child) THEN remove(st.dom, child) ELSE st.dom
    IN IF ~is_element(d1, child) THEN [st EXCEPT !.dom = d1]
       ELSE LET by == extract_byline(d1, child)
            IN IF by.some
               THEN [dom |-> remove(d1, child), byline |-> by]
               ELSE IF c.strip_unlikelys /\ is_unlikely_candidate(d1, child)
               THEN [st EXCEPT !.dom = remove(d1, child)]
               ELSE IF is(d1, child, "div")
               THEN [st EXCEPT !.dom = transform_div(d1, child)]
               ELSE IF is(d1, child, "font")
               THEN [st EXCEPT !.dom = rename(d1, child, "span").dom]
               ELSE [st EXCEPT !.dom = d1]

RECURSIVE CaptureAll(_, _, _)
CaptureAll(st, c, cs) ==
    IF cs = <<>> THEN st
    ELSE CaptureAll(CaptureChild(st, c, Head(cs)), c, Tail(cs))

\* Readability::on_capturing: [dom, byline] after the loop over the children
\* the node has at entry (Siblings fetches each child's successor before the
\* body runs on the child, and the body changes only that child)
on_capturing(d, bl, c, node) ==
    CaptureAll([dom |-> d, byline |-> bl], c, d[node].kids)

(***************************************************************************)
(* NodeInfo and the node cache                                             *)
(***************************************************************************)

\* NodeInfo::default(); content_score counts sixths
DefaultInfo ==
    [content_score |-> 0, text_len |-> 0, link_len |-> 0, commas |-> 0,
     is_candidate |-> FALSE, is_shabby |-> FALSE,
     p_count |-> 0, img_count |-> 0, li_count |-> 0, input_count |-> 0,
     embed_count |-> 0, iframe_count |-> 0, br_count |-> 0, hr_count |-> 0]

\* NodeCache::get_or_create: the cache after the call
get_or_create(inf, n) ==
    IF n \in DOMAIN inf THEN inf ELSE (n :> DefaultInfo) @@ inf

\* NodeCache::get(..).is_some()
has_info(inf, n) == n \in DOMAIN inf

(***************************************************************************)
(* Bubble stage                                                            *)
(***************************************************************************)

ScoreTags == {"section", "p", "td", "pre", "h2", "h3", "h4", "h5", "h6"}

is_tag_to_score(tag) == tag \in ScoreTags

tag_score(tag) ==
    CASE tag = "section" -> 15
      [] tag = "div" -> 5
      [] tag \in {"pre", "td", "blockquote"} -> 3
      [] tag \in {"address", "form"} -> -3
      [] tag \in {"dl", "dt", "dd"} -> -3
      [] tag \in {"li", "ol", "ul"} -> -3
      [] tag = "body" -> -5
      [] tag \in {"h1", "h2", "h3", "h4", "h5", "h6"} -> -5
      [] tag = "th" -> -5
      [] OTHER -> 0

ClassWeight == 25

class_score(d, elem) ==
    LET a == d[elem].attrs
        part(v) == IF v = None THEN 0
                   ELSE (IF POSITIVE(v) THEN ClassWeight ELSE 0)
                        - (IF NEGATIVE(v) THEN ClassWeight ELSE 0)
    IN part(a.class) + part(a.id)

MediaCount(i) == i.img_count + i.embed_count + i.iframe_count

is_stuffed(d, elem, i) ==
    LET tag == d[elem].name
    IN CASE tag \in {"h1", "footer", "button"} -> FALSE
         [] tag \in {"div", "section", "header", "h2", "h3", "h4", "h5", "h6"} ->
              ~(/\ i.text_len = 0
                /\ LET children_count == Len(d[elem].kids)
                   IN \/ children_count = 0
                      \/ children_count = i.br_count + i.hr_count)
         [] tag \in {"thead", "tbody", "th", "tr", "td"} ->
              i.text_len > 0 \/ MediaCount(i) > 0
         [] tag \in {"p", "pre", "blockquote"} ->
              MediaCount(i) > 0 \/ trim(text_contents(d, elem)) # <<>>
         [] OTHER -> TRUE

\* clean_attributes
clean_attributes(attrs) == [attrs EXCEPT !.style = None]

\* Url::join on the attribute universe with the base http://fakehost/test/page.html;
\* None stands for Err
UrlJoin(url) ==
    CASE url = "/x" -> "http://fakehost/x"
      [] url = "img.png" -> "http://fakehost/test/img.png"
      [] url = "//youtube.com/v" -> "http://youtube.com/v"
      [] url = "#top" -> "http://fakehost/test/page.html#top"
      [] url = "" -> "http://fakehost/test/page.html"
      [] url \in {"http://other/x", "mailto:a"} -> url
      [] OTHER -> None

\* str::starts_with('#') on the attribute universe
starts_with_hash(s) == s \in {"#top"}

\* fix_relative_urls::fix
fix(url) ==
    IF url = "" \/ PROTOCOL(url) \/ starts_with_hash(url) THEN url
    ELSE IF UrlJoin(url) # None THEN UrlJoin(url) ELSE url

fix_relative_urls(attrs) ==
    [attrs EXCEPT !.href = IF @ # None THEN fix(@) ELSE @,
                  !.src = IF @ # None THEN fix(@) ELSE @]

\* a mutant of LinkContribution: the text is added on top of the links
LinkContributionBoth(is_a, i) == i.text_len + i.link_len

\* what a node adds to its parent's link_len (lib.rs:760)
LinkContribution(is_a, i) == IF is_a THEN i.text_len ELSE i.link_len

\* a mutant of propagate_info: the statistics of a node that is about to be
\* removed as not stuffed stay out of its parent's record
propagate_info_of_stuffed(d, inf, node) ==
    LET parent == d[node].parent
        inf1 == get_or_create(inf, node)
        i == inf1[node]
    IN IF parent = 0 \/ ~is_stuffed(d, node, i) THEN inf
       ELSE LET inf2 == get_or_create(inf1, parent)
                one(t) == IF d[node].name = t THEN 1 ELSE 0
            IN [inf2 EXCEPT ![parent] =
                 [@ EXCEPT
                    !.link_len = @ + LinkContribution(is(d, node, "a"), i),
                    !.text_len = @ + i.text_len,
                    !.commas = @ + i.commas,
                    !.p_count = @ + one("p") + i.p_count,
                    !.img_count = @ + one("img") + i.img_count,
                    !.li_count = @ + one("li") + i.li_count,
                    !.input_count = @ + one("input") + i.input_count,
                    !.embed_count = @ + one("embed") + i.embed_count,
                    !.iframe_count = @ + one("iframe") + i.iframe_count,
                    !.br_count = @ + one("br") + i.br_count,
                    !.hr_count = @ + one("hr") + i.hr_count]]

\* Readability::propagate_info: the cache after the call
propagate_info(d, inf, node) ==
    LET parent == d[node].parent
    IN IF parent = 0 THEN inf
       ELSE LET is_a == is(d, node, "a")
                inf1 == get_or_create(inf, node)
                i == inf1[node]
                inf2 == get_or_create(inf1, parent)
                tag == IF is_element(d, node) THEN d[node].name ELSE ""
                one(t) == IF tag = t THEN 1 ELSE 0
                embed == IF tag = "embed"
                            /\ ~VIDEO(unwrap_or_empty(d[node].attrs.src))
                         THEN 1 ELSE 0
            IN [inf2 EXCEPT ![parent] =
                 [@ EXCEPT
                    !.link_len = @ + LinkContribution(is_a, i),
                    !.text_len = @ + i.text_len,
                    !.commas = @ + i.commas,
                    !.p_count = @ + one("p") + i.p_count,
                    !.img_count = @ + one("img") + i.img_count,
                    !.li_count = @ + one("li") + i.li_count,
                    !.input_count = @ + one("input") + i.input_count,
                    !.embed_count = @ + embed + i.embed_count,
                    !.iframe_count = @ + one("iframe") + i.iframe_count,
                    !.br_count = @ + one("br") + i.br_count,
                    !.hr_count = @ + one("hr") + i.hr_count]]

MinTextLen == 25
LenPerPoint == 100
MaxLenPoints == 3
ManyCommas == 10

Min(a, b) == IF a < b THEN a ELSE b

\* a mutant of calculate_content_score: the length threshold is not applied
calculate_content_score_any_len(d, inf, node) ==
    LET parent == d[node].parent
        inf1 == get_or_create(inf, node)
        i == inf1[node]
    IN IF ~(parent # 0 /\ is_element(d, parent))
       THEN [some |-> FALSE, score |-> 0, info |-> inf]
       ELSE [some |-> TRUE,
             score |-> 1 + i.commas + Min((i.text_len + i.link_len) \div 100, 3),
             info |-> inf1]

\* Readability::calculate_content_score: [some, score, info]
calculate_content_score(d, inf, node) ==
    LET parent == d[node].parent
        parent_elem == parent # 0 /\ is_element(d, parent)
        inf1 == get_or_create(inf, node)
        i == inf1[node]
    IN IF ~parent_elem THEN [some |-> FALSE, score |-> 0, info |-> inf]
       ELSE IF i.text_len < MinTextLen
       THEN [some |-> FALSE, score |-> 0, info |-> inf1]
       ELSE [some |-> TRUE,
             score |-> 1 + i.commas
                         + Min((i.text_len + i.link_len) \div LenPerPoint, MaxLenPoints),
             info |-> inf1]

\* the f32 divisor of propagate_score at a level, as the number of sixths of
\* the score that the ancestor receives
Sixths(level) == CASE level = 0 -> 6 [] level = 1 -> 3 [] OTHER -> 6 \div (3 * level)

ScoreLevels == 3

\* a mutant of ScoredAncestors: every element ancestor is taken
ScoredAncestorsAll(d, node) ==
    SelectSeq(ancestors(d, node), LAMBDA a : is_element(d, a))

\* ancestors().elements().enumerate().take(3)
ScoredAncestors(d, node) ==
    LET elems == SelectSeq(ancestors(d, node), LAMBDA a : is_element(d, a))
    IN SubSeq(elems, 1, Min(ScoreLevels, Len(elems)))

\* a mutant of PushCandidate: the is_candidate flag is not consulted
PushCandidateAlways(cands, flagged, ancestor) == Append(cands, ancestor)

\* lib.rs:857-860: an ancestor not yet flagged joins the candidates
PushCandidate(cands, flagged, ancestor) ==
    IF flagged THEN cands ELSE Append(cands, ancestor)

\* Readability::propagate_score: [info, candidates]
RECURSIVE PropagateFrom(_, _, _, _)
PropagateFrom(st, as, level, content_score) ==
    IF level >= Len(as) THEN st
    ELSE LET ancestor == as[level + 1]
             inf1 == get_or_create(st.info, ancestor)
             flagged == inf1[ancestor].is_candidate
             inf2 == [inf1 EXCEPT ![ancestor].content_score =
                                       @ + content_score * Sixths(level),
                                  ![ancestor].is_candidate = TRUE]
         IN PropagateFrom([info |-> inf2,
                           candidates |-> PushCandidate(st.candidates, flagged,
                                                        ancestor)],
                          as, level + 1, content_score)

propagate_score(d, inf, cands, node, content_score) ==
    PropagateFrom([info |-> inf, candidates |-> cands],
                  ScoredAncestors(d, node), 0, content_score)

\* Readability::score_node: [info, candidates]
score_node(d, inf, cands, node) ==
    LET cs == calculate_content_score(d, inf, node)
    IN IF cs.some THEN propagate_score(d, cs.info, cands, node, cs.score)
       ELSE [info |-> cs.info, candidates |-> cands]

\* a mutant of LinkDensityOver: the bound itself counts as over it
LinkDensityAtLeast(i, num, den) == den * i.link_len >= num * i.text_len

LinkDensityOver(i, num, den) ==
    \* link_len as f32 / text_len as f32 > num/den; 0/0 is NaN, x/0 is +inf
    IF i.text_len = 0 THEN i.link_len > 0
    ELSE den * i.link_len > num * i.text_len

ConditionalTags == {"form", "fieldset", "table", "div", "ul", "ol"}

\* Readability::is_conditionally_acceptable (the cache it leaves is that of
\* get_or_create, which on_bubbling has called for the element before)
is_conditionally_acceptable(d, inf, c, elem) ==
    LET tag == d[elem].name
        is_list == tag \in {"ul", "ol"}
        cls == IF c.weight_classes THEN class_score(d, elem) ELSE 0
        i == get_or_create(inf, elem)[elem]
    IN IF tag \notin ConditionalTags THEN TRUE
       ELSE IF cls < 0 THEN FALSE
       ELSE IF i.commas >= ManyCommas THEN TRUE
       ELSE ~(\/ (i.img_count > 1 /\ 2 * i.p_count < i.img_count)
              \/ (~is_list /\ i.li_count > i.p_count + 100)
              \/ (i.input_count * 3 > i.p_count)
              \/ (~is_list /\ i.text_len < 25
                    /\ (i.img_count = 0 \/ i.img_count > 2))
              \/ (~is_list /\ cls < 25 /\ LinkDensityOver(i, 1, 5))
              \/ (cls >= 25 /\ LinkDensityOver(i, 1, 2))
              \/ ((i.embed_count = 1 /\ i.text_len < 75) \/ i.embed_count > 1))

\* Readability::on_bubbling for a text node: [info, ok]; ok is FALSE when
\* node.parent().unwrap() or count_chars fails
BubbleText(d, inf, node) ==
    LET cnt == count_chars(d[node].text)
        parent == d[node].parent
    IN IF parent = 0 \/ ~cnt.ok THEN [info |-> inf, ok |-> FALSE]
       ELSE [info |-> [get_or_create(inf, parent) EXCEPT
                          ![parent].text_len = @ + cnt.chars,
                          ![parent].commas = @ + cnt.commas],
             ok |-> TRUE]

\* Readability::on_bubbling for an element: [dom, info, candidates, fate]
BubbleElement(d, inf, cands, c, node) ==
    LET inf1 == propagate_info(d, inf, node)
        sc == IF is_tag_to_score(d[node].name)
              THEN score_node(d, inf1, cands, node)
              ELSE [info |-> inf1, candidates |-> cands]
        inf2 == get_or_create(sc.info, node)
        parent == d[node].parent
    IN IF ~is_stuffed(d, node, inf2[node])
       THEN [dom |-> remove(d, node), info |-> inf2,
             candidates |-> sc.candidates, fate |-> "not_stuffed"]
       ELSE IF c.clean_conditionally
               /\ ~is_conditionally_acceptable(d, inf2, c, node)
       THEN LET inf3 == [inf2 EXCEPT ![node].is_candidate = FALSE]
                inf4 == IF parent = 0 THEN inf3
                        ELSE [get_or_create(inf3, parent) EXCEPT
                                 ![parent].is_shabby = TRUE]
            IN [dom |-> remove(d, node), info |-> inf4,
                candidates |-> sc.candidates, fate |-> "unacceptable"]
       ELSE LET prev == previous_element(d, node)
                d1 == IF is(d, node, "p") /\ prev # 0 /\ is(d, prev, "br")
                      THEN remove(d, prev) ELSE d
                a1 == IF c.clean_attributes THEN clean_attributes(d1[node].attrs)
                      ELSE d1[node].attrs
                a2 == IF c.base_url /\ d1[node].name \in {"a", "img"}
                      THEN fix_relative_urls(a1) ELSE a1
            IN [dom |-> [d1 EXCEPT ![node].attrs = a2], info |-> inf2,
                candidates |-> sc.candidates, fate |-> "kept"]

(***************************************************************************)
(* Candidate scoring and selection                                         *)
(***************************************************************************)

\* the longest prefix of s whose elements are in the set P
TakeWhile(s, P) ==
    LET bad == {i \in 1..Len(s) : s[i] \notin P}
    IN IF bad = {} THEN s
       ELSE SubSeq(s, 1, (CHOOSE i \in bad : \A j \in bad : i <= j) - 1)

\* a final score is the rational num/den with den > 0
ScoreGeq(a, b) == a.num * b.den >= b.num * a.den

\* score >= top * 0.75
PassesThreshold(a, top) == 4 * a.num * top.den >= 3 * top.num * a.den

\* the final score of a candidate (lib.rs:888-900)
FinalScore(d, i, c, candidate) ==
    [num |-> (i.content_score + 6 * tag_score(d[candidate].name)
                + (IF c.weight_classes THEN 6 * class_score(d, candidate) ELSE 0))
             * (i.text_len - i.link_len),
     den |-> 6 * i.text_len]

\* slice::sort_by(|a, b| b.partial_cmp(a)): stable, descending
RECURSIVE SortDesc(_)
SortDesc(s) ==
    IF s = <<>> THEN <<>>
    ELSE LET x == s[Len(s)]
             front == SortDesc(SubSeq(s, 1, Len(s) - 1))
             keep == TakeWhile(front, {y \in Range(front) : ScoreGeq(y.score, x.score)})
         IN keep \o <<x>> \o SubSeq(front, Len(keep) + 1, Len(front))

\* the loop of score_candidates: [scored, ok]; ok is FALSE when the unwrap of
\* info.get or one of the debug assertions fails
RECURSIVE ScoreEach(_, _, _, _)
ScoreEach(d, inf, c, cs) ==
    IF cs = <<>> THEN [scored |-> <<>>, ok |-> TRUE]
    ELSE LET candidate == Head(cs)
             rest == ScoreEach(d, inf, c, Tail(cs))
         IN IF ~has_info(inf, candidate) THEN [scored |-> <<>>, ok |-> FALSE]
            ELSE LET i == inf[candidate]
                 IN IF ~i.is_candidate THEN rest
                    ELSE IF ~(i.text_len > 0 /\ i.text_len >= i.link_len)
                    THEN [scored |-> <<>>, ok |-> FALSE]
                    ELSE [scored |-> <<[score |-> FinalScore(d, i, c, candidate),
                                        node |-> candidate]>> \o rest.scored,
                          ok |-> rest.ok]

\* Readability::score_candidates: [candidates, ok]
score_candidates(d, inf, c, cands) ==
    LET each == ScoreEach(d, inf, c, cands)
        sorted == SortDesc(each.scored)
    IN IF ~each.ok THEN [candidates |-> <<>>, ok |-> FALSE]
       ELSE IF sorted = <<>> THEN [candidates |-> <<>>, ok |-> TRUE]
       ELSE LET top == sorted[1].score
                kept == TakeWhile(sorted, {x \in Range(sorted) : PassesThreshold(x.score, top)})
            IN [candidates |-> [k \in 1..Len(kept) |-> kept[k].node], ok |-> TRUE]

MIN_CANDIDATES == 4

\* Readability::find_common_candidate
find_common_candidate(d, cands) ==
    LET best == cands[1]
        others == SubSeq(cands, 2, Len(cands))
        ups == TakeWhile(ancestors(d, best), {n \in Ids(d) : ~is(d, n, "body")})
        hits(common) == Len(SelectSeq(others,
                              LAMBDA x : common \in Range(ancestors(d, x))))
        found == SelectSeq(ups, LAMBDA n : hits(n) >= MIN_CANDIDATES)
    IN IF \/ Len(cands) < MIN_CANDIDATES
          \/ is(d, best, "body")
          \/ d[best].parent = 0
          \/ is(d, d[best].parent, "body")
       THEN best
       ELSE IF found # <<>> THEN found[1] ELSE best

AcceptableTopLevel == {"div", "article", "section", "p"}


\* a mutant of ClimbByScore: an equal score promotes the ancestor as well
RECURSIVE ClimbByScoreOrEqual(_, _, _, _)
ClimbByScoreOrEqual(st, d, ps, threshold3) ==
    IF ps = <<>> THEN st
    ELSE LET parent == Head(ps)
             inf1 == get_or_create(st.info, parent)
             parent_score == inf1[parent].content_score
         IN IF 3 * parent_score < threshold3 THEN [st EXCEPT !.info = inf1]
            ELSE ClimbByScoreOrEqual(
                    [candidate |-> IF parent_score >= st.last_score THEN parent
                                   ELSE st.candidate,
                     last_score |-> parent_score,
                     info |-> inf1],
                    d, Tail(ps), threshold3)

\* the first loop of correct_candidate over the ancestors ps of the chosen
\* node: [candidate, last_score, info]
RECURSIVE ClimbByScore(_, _, _, _)
ClimbByScore(st, d, ps, threshold3) ==
    IF ps = <<>> THEN st
    ELSE LET parent == Head(ps)
             inf1 == get_or_create(st.info, parent)
             parent_score == inf1[parent].content_score
         IN IF 3 * parent_score < threshold3 THEN [st EXCEPT !.info = inf1]
            ELSE ClimbByScore(
                    [candidate |-> IF parent_score > st.last_score THEN parent
                                   ELSE st.candidate,
                     last_score |-> parent_score,
                     info |-> inf1],
                    d, Tail(ps), threshold3)

\* a mutant of is_acceptable_top_level: body passes as a top-level tag
is_acceptable_top_level_body(tag) == tag \in AcceptableTopLevel \cup {"body"}

is_acceptable_top_level(tag) == tag \in AcceptableTopLevel

\* Readability::correct_candidate: [dom, info, node, ok]; ok is FALSE when
\* result.as_element().unwrap() fails
correct_candidate(d, inf, chosen) ==
    LET inf1 == get_or_create(inf, chosen)
        start == inf1[chosen].content_score
        ups == TakeWhile(ancestors(d, chosen), {n \in Ids(d) : ~is(d, n, "body")})
        climbed == ClimbByScore([candidate |-> chosen, last_score |-> start,
                                 info |-> inf1], d, ups, start)
        chain == TakeWhile(ancestors(d, climbed.candidate),
                     {parent \in Ids(d) :
                                     /\ ~is(d, parent, "body")
                                     /\ Len(d[parent].kids) = 1
                                     /\ (has_info(climbed.info, parent)
                                           => ~climbed.info[parent].is_shabby)})
        res == IF chain = <<>> THEN climbed.candidate ELSE chain[Len(chain)]
    IN IF ~is_element(d, res)
       THEN [dom |-> d, info |-> climbed.info, node |-> res, ok |-> FALSE]
       ELSE IF ~is_acceptable_top_level(d[res].name)
       THEN LET r == rename(d, res, "div")
            IN [dom |-> r.dom, info |-> climbed.info, node |-> r.node, ok |-> TRUE]
       ELSE [dom |-> d, info |-> climbed.info, node |-> res, ok |-> TRUE]

(***************************************************************************)
(* Input documents: what kuchikiki::parse_html hands to readify            *)
(***************************************************************************)

\* document templates: nested records, laid out into an arena by Lay
E(name, attrs, kids) ==
    [kind |-> "element", name |-> name, attrs |-> attrs, text |-> <<>>, kids |-> kids]
T(text) ==
    [kind |-> "text", name |-> "", attrs |-> NoAttrs, text |-> text, kids |-> <<>>]
Comment ==
    [kind |-> "comment", name |-> "", attrs |-> NoAttrs, text |-> <<>>, kids |-> <<>>]

RECURSIVE Lay(_, _, _), LayAll(_, _, _)
\* the arena slice of template t whose root gets identity base + 1
Lay(t, parent, base) ==
    LET sub == LayAll(t.kids, base + 1, base + 1)
    IN <<[kind |-> t.kind, name |-> t.name, attrs |-> t.attrs, text |-> t.text,
          parent |-> parent, kids |-> sub.roots]>> \o sub.nodes
LayAll(ts, parent, base) ==
    IF ts = <<>> THEN [nodes |-> <<>>, roots |-> <<>>]
    ELSE LET first == Lay(Head(ts), parent, base)
             rest == LayAll(Tail(ts), parent, base + Len(first))
         IN [nodes |-> first \o rest.nodes, roots |-> <<base + 1>> \o rest.roots]

\* texts: 24 and 25 counted characters (either side of the scoring threshold),
\* a text with leading and trailing whitespace, one with ten commas
T24 == Rep("x", 24)
T25 == Rep("x", 25)
Padded == <<" ", " ">> \o Rep("x", 25) \o <<" ">>
Commas == [i \in 1..30 |-> IF i % 3 = 0 THEN "," ELSE "x"]
Blank == <<" ">>

MaxCopies == 1

P(text) == E("p", NoAttrs, <<T(text)>>)
A(text) == E("a", NoAttrs, <<T(text)>>)

\* the neutral blocks that the input documents are built around
Blocks ==
    << P(T25),
       E("div", NoAttrs, <<P(T25), P(T25)>>),
       E("div", NoAttrs, <<P(T25)>>),
       E("div", NoAttrs, <<T(T25)>>),
       E("div", NoAttrs, <<T(T25), P(T25)>>),
       E("section", NoAttrs, <<E("div", NoAttrs,
            <<E("p", NoAttrs, <<T(T25), A(T25)>>), P(T25)>>)>>),
       E("div", NoAttrs, <<P(T25), A(T24), E("img", NoAttrs, <<>>)>>),
       E("article", NoAttrs, <<E("font", NoAttrs, <<T(T24)>>),
                               E("br", NoAttrs, <<>>), P(T25)>>)
    >>

\* body with c copies of block k
Skeleton(k, c) == Lay(E("body", NoAttrs, [i \in 1..c |-> Blocks[k]]), 0, 0)

EditTags == {"div", "p", "a", "font", "h1", "h2", "section", "ul", "td",
             "span", "script", "img", "blockquote"}

EditAttrs ==
    { [NoAttrs EXCEPT !.class = "sidebar"],
      [NoAttrs EXCEPT !.class = "share"],
      [NoAttrs EXCEPT !.id = "content"],
      [NoAttrs EXCEPT !.class = "main-sidebar"],
      [NoAttrs EXCEPT !.rel = "author"],
      [NoAttrs EXCEPT !.style = "color:red"],
      [NoAttrs EXCEPT !.href = "/x", !.src = "img.png", !.style = "color:red"],
      [NoAttrs EXCEPT !.href = "#top", !.src = "http://other/x"],
      [NoAttrs EXCEPT !.href = "//", !.src = ""] }

EditTexts == {T24, Padded, Commas, Blank}

EditLeaves ==
    { Comment, T(Blank), T(T24), E("br", NoAttrs, <<>>), E("script", NoAttrs, <<>>),
      E("img", NoAttrs, <<>>) }

\* a new leaf as the sibling before node n
InsertLeaf(d, n, leaf) ==
    LET new == Len(d) + 1
        d1 == Append(d, [kind |-> leaf.kind, name |-> leaf.name, attrs |-> leaf.attrs,
                         text |-> leaf.text, parent |-> 0, kids |-> <<>>])
    IN insert_before(d1, n, new)

\* the documents one edit away from document d
Edited(d) ==
    {[d EXCEPT ![n].name = t] : n \in {m \in 2..Len(d) : is_element(d, m)}, t \in EditTags}
    \cup {[d EXCEPT ![n].attrs = a] : n \in {m \in Ids(d) : is_element(d, m)}, a \in EditAttrs}
    \cup {[d EXCEPT ![n].text = x] : n \in {m \in Ids(d) : is_text(d, m)}, x \in EditTexts}
    \cup {InsertLeaf(d, n, l) : n \in 2..Len(d), l \in EditLeaves}

Documents ==
    UNION {{Skeleton(k, c)} \cup Edited(Skeleton(k, c)) :
               k \in 1..Len(Blocks), c \in 1..MaxCopies}

Configs ==
    [strip_unlikelys : BOOLEAN, weight_classes : BOOLEAN,
     clean_conditionally : BOOLEAN, clean_attributes : BOOLEAN, base_url : BOOLEAN]

(***************************************************************************)
(* Readability::parse / readify as a state machine                         *)
(***************************************************************************)

NoTwin == [phase |-> 0]
NoMeta == [phase |-> 0]

\* an event of the history: the step, the node it ran on as the step found it
\* (tag, parent, the text_len of its record) and what the step did with it
Event(op, d, inf, node, fate) ==
    [op |-> op, node |-> node,
     name |-> IF node = 0 THEN "" ELSE d[node].name,
     parent |-> IF node = 0 THEN 0 ELSE d[node].parent,
     text_len |-> IF node # 0 /\ has_info(inf, node) THEN inf[node].text_len ELSE 0,
     fate |-> fate]

last == trace[Len(trace)]

\* parse: the detached body is the top level; the engine is newly built
Loaded(d, c) ==
    /\ dom = d
    /\ cfg = c
    /\ info = <<>>
    /\ candidates = <<>>
    /\ byline = NoByline
    /\ top_level = 1
    /\ current = 1
    /\ bubbling = FALSE
    /\ pc = "walk"
    /\ result = 0
    /\ trace = <<>>
    /\ steps = 0

Init ==
    /\ \E d \in Documents, c \in Configs : Loaded(d, c)
    /\ twin = NoTwin
    /\ meta = NoMeta

\* readify's loop, lines 542-551: on_capturing(current), then descend
Capture ==
    /\ pc = "walk"
    /\ ~bubbling
    /\ LET r == on_capturing(dom, byline, cfg, current)
           child == first_child(r.dom, current)
       IN /\ dom' = r.dom
          /\ byline' = r.byline
          /\ current' = IF child # 0 THEN child ELSE current
          /\ bubbling' = (child = 0)
    /\ trace' = Append(trace, Event("capture", dom, info, current, "kept"))
    /\ steps' = steps + 1
    /\ UNCHANGED <<info, candidates, cfg, top_level, pc, result, twin, meta>>

\* readify's loop, lines 553-569: pick the successor, then on_bubbling(current)
Bubble ==
    /\ pc = "walk"
    /\ bubbling
    /\ LET next == next_sibling(dom, current)
           parent == dom[current].parent
           txt == BubbleText(dom, info, current)
           el == BubbleElement(dom, info, candidates, cfg, current)
           failed == is_text(dom, current) /\ ~txt.ok
       IN /\ dom' = IF is_element(dom, current) THEN el.dom ELSE dom
          /\ info' = IF is_element(dom, current) THEN el.info
                     ELSE IF is_text(dom, current) THEN txt.info ELSE info
          /\ candidates' = IF is_element(dom, current) THEN el.candidates
                           ELSE candidates
          /\ trace' = Append(trace, Event("bubble", dom, info, current,
                                 IF is_element(dom, current) THEN el.fate ELSE "kept"))
          /\ steps' = steps + 1
          /\ current' = IF next # 0 THEN next ELSE IF parent # 0 THEN parent ELSE current
          /\ bubbling' = (next = 0)
          /\ pc' = IF failed THEN "panic"
                   ELSE IF next = 0 /\ parent = 0 THEN "walked" ELSE "walk"
    /\ UNCHANGED <<byline, cfg, top_level, result, twin, meta>>

\* readify, lines 572-574 and 578-580: no candidate, the top level is returned
ReturnTopLevel ==
    /\ pc \in {"walked", "scored"}
    /\ candidates = <<>>
    /\ result' = top_level
    /\ pc' = "done"
    /\ trace' = Append(trace, Event("return", dom, info, top_level, "top_level"))
    /\ steps' = steps + 1
    /\ UNCHANGED <<dom, info, candidates, byline, cfg, top_level, current,
                   bubbling, twin, meta>>

\* readify, line 576
ScoreCandidates ==
    /\ pc = "walked"
    /\ candidates # <<>>
    /\ LET r == score_candidates(dom, info, cfg, candidates)
       IN /\ candidates' = r.candidates
          /\ pc' = IF r.ok THEN "scored" ELSE "panic"
    /\ trace' = Append(trace, Event("score", dom, info, 0, ""))
    /\ steps' = steps + 1
    /\ UNCHANGED <<dom, info, byline, cfg, top_level, current, bubbling, result,
                   twin, meta>>

\* readify, lines 582-583
SelectCandidate ==
    /\ pc = "scored"
    /\ candidates # <<>>
    /\ LET top_candidate == find_common_candidate(dom, candidates)
           r == correct_candidate(dom, info, top_candidate)
       IN /\ dom' = r.dom
          /\ info' = r.info
          /\ result' = r.node
          /\ pc' = IF r.ok THEN "done" ELSE "panic"
          /\ trace' = Append(trace, Event("select", dom, info, top_candidate,
                                          "candidate"))
          /\ steps' = steps + 1
    /\ UNCHANGED <<candidates, byline, cfg, top_level, current, bubbling, twin, meta>>

Next == Capture \/ Bubble \/ ReturnTopLevel \/ ScoreCandidates \/ SelectCandidate

Spec == Init /\ [][Next]_vars

\* parse runs to completion on one thread without yielding: while readify has
\* neither returned nor panicked, it executes its next step
Advance == pc \notin {"done", "panic"} /\ steps' = steps + 1

SpecFair == Spec /\ WF_steps(Advance)

(***************************************************************************)
(* Two parses of one document, the second without its useless nodes        *)
(***************************************************************************)

\* the nodes on_capturing removes without looking further: comments and
\* script, style and noscript elements (lib.rs:595-602); html5ever never
\* leaves a document fragment among the children of a node
IsJunk(d, n) ==
    \/ d[n].kind = "comment"
    \/ is_element(d, n) /\ d[n].name \in {"script", "style", "noscript"}

\* document d without its useless nodes
RECURSIVE StripFrom(_, _)
StripFrom(d, n) ==
    IF n > Len(d) THEN d
    ELSE StripFrom(IF IsJunk(d, n) /\ d[n].parent # 0 THEN detach(d, n) ELSE d, n + 1)

Strip(d) == StripFrom(d, 2)

\* the subtree of n as a value: tags, attributes, text and children in order
RECURSIVE Canon(_, _)
Canon(d, n) ==
    [kind |-> d[n].kind, name |-> d[n].name, attrs |-> d[n].attrs,
     text |-> d[n].text,
     kids |-> [i \in 1..Len(d[n].kids) |-> Canon(d, d[n].kids[i])]]

\* the documents that hold a useless node; a script holds nothing but text
TwinDocuments ==
    {d \in Documents :
        /\ \E n \in 2..Len(d) : IsJunk(d, n)
        /\ \A n \in 2..Len(d) :
              IsJunk(d, n) => \A k \in Range(d[n].kids) : is_text(d, k)}

InitTwin ==
    /\ \E d \in TwinDocuments, c \in Configs :
          Loaded(d, c) /\ twin = [phase |-> 1, input |-> d, first |-> <<>>]
    /\ meta = NoMeta

\* the first parse has returned: parse the stripped document with a new
\* engine of the same configuration
Rerun ==
    /\ pc = "done"
    /\ twin.phase = 1
    /\ twin' = [twin EXCEPT !.phase = 2, !.first = Canon(dom, result)]
    /\ dom' = Strip(twin.input)
    /\ info' = <<>>
    /\ candidates' = <<>>
    /\ byline' = NoByline
    /\ current' = 1
    /\ bubbling' = FALSE
    /\ pc' = "walk"
    /\ result' = 0
    /\ trace' = <<>>
    /\ steps' = steps + 1
    /\ UNCHANGED <<cfg, top_level, meta>>

NextTwin == Next \/ Rerun

SpecTwin == InitTwin /\ [][NextTwin]_vars

(***************************************************************************)
(* Documents with up to two rel="author" elements                          *)
(***************************************************************************)

\* document d with rel="author" on element n
WithAuthor(d, n) == [d EXCEPT ![n].attrs.rel = "author"]

BylineDocuments ==
    UNION {{WithAuthor(WithAuthor(Skeleton(k, 1), n), m) :
               n, m \in {e \in 2..Len(Skeleton(k, 1)) : is_element(Skeleton(k, 1), e)}} :
           k \in 1..Len(Blocks)}

InitByline ==
    /\ \E d \in BylineDocuments, c \in Configs : Loaded(d, c)
    /\ twin = NoTwin
    /\ meta = NoMeta

SpecByline == InitByline /\ [][Next]_vars

(***************************************************************************)
(* Documents for the stuffing policy: one element of each policy class     *)
(* over each kind of content, next to a paragraph that scores or not       *)
(***************************************************************************)

Leaf(tag) == E(tag, NoAttrs, <<>>)

StuffTags ==
    {"h1", "footer", "button", "div", "section", "header", "h2", "h6",
     "thead", "tr", "td", "p", "pre", "blockquote", "span", "ul", "article"}

StuffKids ==
    { <<>>,
      <<Leaf("br")>>,
      <<Leaf("br"), Leaf("hr")>>,
      <<E("span", NoAttrs, <<Leaf("br")>>)>>,
      <<Leaf("br"), E("span", NoAttrs, <<Leaf("hr")>>)>>,
      <<Leaf("span")>>,
      <<Leaf("img")>>,
      <<Leaf("br"), Leaf("img")>>,
      <<E("h1", NoAttrs, <<Leaf("img")>>)>>,
      <<T(T24)>>,
      <<E("span", NoAttrs, <<T(T24)>>)>>,
      <<E("h1", NoAttrs, <<T(T24)>>)>> }

StuffDocuments ==
    {Lay(E("body", NoAttrs,
           <<E("article", NoAttrs, <<E(t, NoAttrs, ks), P(txt)>>)>>), 0, 0) :
        t \in StuffTags, ks \in StuffKids, txt \in {T24, T25}}

InitStuffed ==
    /\ \E d \in StuffDocuments, c \in Configs : Loaded(d, c)
    /\ twin = NoTwin
    /\ meta = NoMeta

SpecStuffed == InitStuffed /\ [][Next]_vars

(***************************************************************************)
(* score_node on its own: a chain of elements, the statistics of one of    *)
(* them, and some of its ancestors already candidates                      *)
(***************************************************************************)

ChainOf(tags) ==
    [i \in 1..Len(tags) |->
        [kind |-> "element", name |-> tags[i], attrs |-> NoAttrs, text |-> <<>>,
         parent |-> i - 1,
         kids |-> IF i < Len(tags) THEN <<i + 1>> ELSE <<>>]]

ScoreChains ==
    { <<"body", "p">>,
      <<"body", "div", "p">>,
      <<"body", "section", "div", "td">>,
      <<"body", "article", "section", "div", "pre">>,
      <<"body", "div", "article", "section", "ul", "h2">> }

\* the records of nodes that an earlier score_node made candidates
Scored(flagged) ==
    [a \in flagged |-> [DefaultInfo EXCEPT !.content_score = 6 * a,
                                           !.is_candidate = TRUE]]

InitScore ==
    /\ \E tags \in ScoreChains :
          /\ dom = ChainOf(tags)
          /\ current \in 1..Len(tags)
    /\ \E flagged \in SUBSET (1..(current - 1)),
          tl \in {0, 24, 25, 99, 100, 299, 300, 450},
          ll \in {0, 1, 50}, cm \in {0, 1, 9} :
          /\ info = (current :> [DefaultInfo EXCEPT !.text_len = tl,
                                                    !.link_len = ll,
                                                    !.commas = cm])
                     @@ Scored(flagged)
          /\ candidates = SelectSeq(ancestors(dom, current),
                                    LAMBDA a : a \in flagged)
    /\ cfg = [strip_unlikelys |-> TRUE, weight_classes |-> TRUE,
              clean_conditionally |-> TRUE, clean_attributes |-> TRUE,
              base_url |-> FALSE]
    /\ byline = NoByline
    /\ top_level = 1
    /\ bubbling = TRUE
    /\ pc = "score_node"
    /\ result = 0
    /\ trace = <<>>
    /\ steps = 0
    /\ twin = NoTwin
    /\ meta = NoMeta

\* on_bubbling, line 673: self.score_node(node)
ScoreNode ==
    /\ pc = "score_node"
    /\ LET r == score_node(dom, info, candidates, current)
       IN /\ info' = r.info
          /\ candidates' = r.candidates
    /\ pc' = "node_scored"
    /\ steps' = steps + 1
    /\ UNCHANGED <<dom, byline, cfg, top_level, current, bubbling, result,
                   trace, twin, meta>>

SpecScore == InitScore /\ [][ScoreNode]_vars

(***************************************************************************)
(* One bubble step of an element whose statistics are given: the element   *)
(* has one child, so that a div with no text still counts as stuffed       *)
(***************************************************************************)

\* link_len <= text_len: propagate_info adds to link_len only what it adds
\* to text_len as well
AcceptRecords ==
    {[DefaultInfo EXCEPT !.text_len = tl, !.link_len = ll, !.commas = cm,
                         !.p_count = pc_, !.img_count = im, !.li_count = li,
                         !.input_count = inp, !.embed_count = em] :
        tl \in {0, 24, 25, 74, 100}, ll \in {0, 20, 21, 50, 51},
        cm \in {0, 10}, pc_ \in {0, 1, 2}, im \in {0, 1, 2, 3},
        li \in {0, 102}, inp \in {0, 1}, em \in {0, 1, 2}}

InitAccept ==
    /\ \E tag \in ConditionalTags \cup {"span", "article"},
          cl \in {None, "content", "share"} :
          dom = Lay(E("body", NoAttrs,
                      <<E(tag, [NoAttrs EXCEPT !.class = cl],
                          <<Leaf("span")>>)>>), 0, 0)
    /\ \E r \in AcceptRecords :
          /\ r.link_len <= r.text_len
          /\ info = (2 :> r)
    /\ \E wc, cc \in BOOLEAN :
          cfg = [strip_unlikelys |-> TRUE, weight_classes |-> wc,
                 clean_conditionally |-> cc, clean_attributes |-> TRUE,
                 base_url |-> FALSE]
    /\ candidates = <<>>
    /\ byline = NoByline
    /\ top_level = 1
    /\ current = 2
    /\ bubbling = TRUE
    /\ pc = "bubble_one"
    /\ result = 0
    /\ trace = <<>>
    /\ steps = 0
    /\ twin = NoTwin
    /\ meta = NoMeta

\* on_bubbling(current) for the element current
BubbleOne ==
    /\ pc = "bubble_one"
    /\ LET el == BubbleElement(dom, info, candidates, cfg, current)
       IN /\ dom' = el.dom
          /\ info' = el.info
          /\ candidates' = el.candidates
          /\ trace' = Append(trace, Event("bubble", dom, info, current, el.fate))
    /\ pc' = "bubbled_one"
    /\ steps' = steps + 1
    /\ UNCHANGED <<byline, cfg, top_level, current, bubbling, result, twin, meta>>

SpecAccept == InitAccept /\ [][BubbleOne]_vars

(***************************************************************************)
(* find_common_candidate on its own: a tree and the candidates that        *)
(* score_candidates kept, best first                                       *)
(***************************************************************************)

CommonTree ==
    Lay(E("body", NoAttrs,
          <<E("div", NoAttrs,
              <<E("section", NoAttrs, <<Leaf("div"), Leaf("article")>>),
                Leaf("div"), Leaf("section"), Leaf("div")>>)>>), 0, 0)

MaxKept == 5

\* the sequences without repetition of 1..n nodes of the tree d
RECURSIVE KeptLists(_, _)
KeptLists(d, n) ==
    IF n = 0 THEN {<<>>}
    ELSE LET shorter == KeptLists(d, n - 1)
         IN shorter \cup
            UNION {{Append(s, x) : x \in Ids(d) \ Range(s)} :
                      s \in {t \in shorter : Len(t) = n - 1}}

InitCommon ==
    /\ dom = CommonTree
    /\ candidates \in KeptLists(CommonTree, MaxKept) \ {<<>>}
    /\ info = [n \in Range(candidates) |->
                  [DefaultInfo EXCEPT !.is_candidate = TRUE, !.content_score = 6]]
    /\ cfg = [strip_unlikelys |-> TRUE, weight_classes |-> TRUE,
              clean_conditionally |-> TRUE, clean_attributes |-> TRUE,
              base_url |-> FALSE]
    /\ byline = NoByline
    /\ top_level = 1
    /\ current = 1
    /\ bubbling = TRUE
    /\ pc = "scored"
    /\ result = 0
    /\ trace = <<>>
    /\ steps = 0
    /\ twin = NoTwin
    /\ meta = NoMeta

\* readify, line 582: let top_candidate = self.find_common_candidate()
FindCommon ==
    /\ pc = "scored"
    /\ result' = find_common_candidate(dom, candidates)
    /\ pc' = "found"
    /\ steps' = steps + 1
    /\ UNCHANGED <<dom, info, candidates, byline, cfg, top_level, current,
                   bubbling, trace, twin, meta>>

SpecCommon == InitCommon /\ [][FindCommon]_vars

(***************************************************************************)
(* correct_candidate on its own: the chosen node at the bottom of a chain  *)
(* of up to three ancestors below body, each with or without a second      *)
(* child, a content_score and an is_shabby flag                            *)
(***************************************************************************)

\* the chain of the tags, each level with a second child where twins says so
RECURSIVE Nest(_, _)
Nest(tags, twins) ==
    E(Head(tags), NoAttrs,
      IF Len(tags) = 1 THEN <<>>
      ELSE <<Nest(Tail(tags), Tail(twins))>>
           \o (IF Head(twins) THEN <<Leaf("span")>> ELSE <<>>))

MaxAbove == 3

InitCorrect ==
    /\ \E above \in 0..MaxAbove, tag \in {"div", "span"},
          twins \in [1..(MaxAbove + 2) -> BOOLEAN] :
          /\ dom = Lay(Nest(<<"body">>
                            \o SubSeq(<<"section", "ul", "td", "article", "table">>, 1, above)
                            \o <<tag>>, twins), 0, 0)
          /\ twins[above + 2] = FALSE
          /\ \A j \in (above + 3)..(MaxAbove + 2) : twins[j] = FALSE
          /\ current = above + 2
    /\ info \in [2..current ->
                    {[DefaultInfo EXCEPT !.content_score = sc, !.is_shabby = sh] :
                        sc \in {0, 6, 7, 18, 20}, sh \in BOOLEAN}]
    /\ info[current].content_score \in {6, 18}
    /\ ~info[current].is_shabby
    /\ candidates = <<current>>
    /\ cfg = [strip_unlikelys |-> TRUE, weight_classes |-> TRUE,
              clean_conditionally |-> TRUE, clean_attributes |-> TRUE,
              base_url |-> FALSE]
    /\ byline = NoByline
    /\ top_level = 1
    /\ bubbling = TRUE
    /\ pc = "chosen"
    /\ result = 0
    /\ trace = <<>>
    /\ steps = 0
    /\ twin = NoTwin
    /\ meta = NoMeta

\* readify, line 583: self.correct_candidate(top_candidate)
CorrectCandidate ==
    /\ pc = "chosen"
    /\ LET r == correct_candidate(dom, info, current)
       IN /\ dom' = r.dom
          /\ info' = r.info
          /\ result' = r.node
          /\ pc' = IF r.ok THEN "corrected" ELSE "panic"
    /\ trace' = Append(trace, Event("select", dom, info, current, "candidate"))
    /\ steps' = steps + 1
    /\ UNCHANGED <<candidates, byline, cfg, top_level, current, bubbling, twin, meta>>

SpecCorrect == InitCorrect /\ [][CorrectCandidate]_vars

(***************************************************************************)
(* The documents with a style attribute on every element                   *)
(***************************************************************************)

Styled(d) ==
    [n \in 1..Len(d) |->
        IF is_element(d, n) THEN [d[n] EXCEPT !.attrs.style = "color:red"]
        ELSE d[n]]

StyledDocuments == {Styled(d) : d \in Documents}

InitStyled ==
    /\ \E d \in StyledDocuments, c \in Configs : Loaded(d, c)
    /\ twin = NoTwin
    /\ meta = NoMeta

SpecStyled == InitStyled /\ [][Next]_vars

(***************************************************************************)
(* metadata::extract (src/src/metadata.rs)                                 *)
(*                                                                         *)
(* extract only selects elements by tag in document order and reads their  *)
(* attributes and text, so a document is the sequence of its meta, title,  *)
(* h1, h2 and p elements in document order.                                *)
(***************************************************************************)

TITLE_KEYS ==
    {"og:title", "twitter:title", "dc:title", "dcterm:title",
     "weibo:article:title", "weibo:webpage:title"}

BYLINE_KEYS ==
    {"author", "dc:creator", "dcterm:creator", "og:article:author",
     "article:author", "byl"}

DESCRIPTION_KEYS ==
    {"description", "dc:description", "dcterm:description", "og:description",
     "weibo:article:description", "weibo:webpage:description",
     "twitter:description"}

\* Option<String>
NoString == [some |-> FALSE, val |-> ""]
Some(v) == [some |-> TRUE, val |-> v]

\* NodeRef::select(tag): the elements with the tag, in document order
select(doc, tag) == SelectSeq(doc, LAMBDA e : e.tag = tag)

meta_type_attrs == <<"name", "property", "itemprop">>

\* the body of extract_meta_content's loop on one meta: Some(content) when one
\* of the three attributes is an expected type and the meta has a content
MetaContent(m, expected_types) ==
    IF /\ \E i \in 1..Len(meta_type_attrs) :
             /\ m[meta_type_attrs[i]] # None
             /\ m[meta_type_attrs[i]] \in expected_types
       /\ m.content # None
    THEN Some(m.content)
    ELSE NoString

extract_meta_content(doc, expected_types) ==
    LET found == SelectSeq(select(doc, "meta"),
                           LAMBDA m : MetaContent(m, expected_types).some)
    IN IF found = <<>> THEN NoString ELSE MetaContent(found[1], expected_types)

\* a mutant of get_article_title: the h2 is tried whatever the h1s were
get_article_title_h2_anyway(doc) ==
    LET meta_title == extract_meta_content(doc, TITLE_KEYS)
        h1s == select(doc, "h1")
        h2s == select(doc, "h2")
    IN IF meta_title.some THEN meta_title
       ELSE IF Len(h1s) = 1 THEN Some(h1s[1].text)
       ELSE IF Len(h2s) = 1 THEN Some(h2s[1].text)
       ELSE NoString

get_article_title(doc) ==
    LET meta_title == extract_meta_content(doc, TITLE_KEYS)
        h1s == select(doc, "h1")
        h2s == select(doc, "h2")
    IN IF meta_title.some THEN meta_title
       ELSE IF Len(h1s) = 1 THEN Some(h1s[1].text)
       ELSE IF Len(h1s) >= 2 THEN NoString
       ELSE IF Len(h2s) = 1 THEN Some(h2s[1].text)
       ELSE NoString

get_article_description(doc) ==
    LET meta_desc == extract_meta_content(doc, DESCRIPTION_KEYS)
        ps == select(doc, "p")
    IN IF meta_desc.some THEN meta_desc
       ELSE IF ps # <<>> THEN Some(ps[1].text)
       ELSE NoString

\* metadata::extract
extract(doc) ==
    LET titles == select(doc, "title")
        page_title == IF titles # <<>> THEN Some(titles[1].text) ELSE NoString
        article_title == get_article_title(doc)
    IN [page_title |-> IF ~page_title.some /\ article_title.some
                       THEN article_title ELSE page_title,
        article_title |-> IF page_title.some /\ ~article_title.some
                          THEN page_title ELSE article_title,
        byline |-> extract_meta_content(doc, BYLINE_KEYS),
        description |-> get_article_description(doc)]

\* a meta element and an element with text
Meta(name, property, itemprop, content) ==
    [tag |-> "meta", name |-> name, property |-> property,
     itemprop |-> itemprop, content |-> content, text |-> ""]

Elem(tag, text) ==
    [tag |-> tag, name |-> None, property |-> None, itemprop |-> None,
     content |-> None, text |-> text]

MetaItems ==
    { Meta("og:title", None, None, "A"),
      Meta(None, "twitter:title", None, "B"),
      Meta(None, None, "dc:title", None),
      Meta("viewport", "og:title", None, "C"),
      Meta("author", None, None, "Joe"),
      Meta(None, None, "dcterm:description", "D"),
      Meta("keywords", None, None, "K"),
      Elem("title", "T1"), Elem("title", "T2"),
      Elem("h1", "H1"), Elem("h1", "H1b"),
      Elem("h2", "H2"), Elem("h2", "H2b"),
      Elem("p", "P1") }

MaxItems == 4

MetaDocuments == UNION {[1..n -> MetaItems] : n \in 0..MaxItems}

\* parse, line 521: the metadata is extracted from the parsed document before
\* the body is detached and walked
InitMeta ==
    /\ \E doc \in MetaDocuments : meta = [phase |-> 1, doc |-> doc, out |-> <<>>]
    /\ dom = <<>>
    /\ cfg = [strip_unlikelys |-> TRUE, weight_classes |-> TRUE,
              clean_conditionally |-> TRUE, clean_attributes |-> TRUE,
              base_url |-> FALSE]
    /\ info = <<>>
    /\ candidates = <<>>
    /\ byline = NoByline
    /\ top_level = 0
    /\ current = 0
    /\ bubbling = FALSE
    /\ pc = "extract"
    /\ result = 0
    /\ trace = <<>>
    /\ steps = 0
    /\ twin = NoTwin

Extract ==
    /\ pc = "extract"
    /\ meta.phase = 1
    /\ meta' = [meta EXCEPT !.phase = 2, !.out = extract(meta.doc)]
    /\ pc' = "extracted"
    /\ steps' = steps + 1
    /\ UNCHANGED <<dom, info, candidates, byline, cfg, top_level, current,
                   bubbling, result, trace, twin>>

NextMeta == Extract

SpecMeta == InitMeta /\ [][NextMeta]_vars

(***************************************************************************)
(* Properties                                                              *)
(***************************************************************************)

Events == {trace[i] : i \in 1..Len(trace)}
Flagged(n) == has_info(info, n) /\ info[n].is_candidate
ContentScore(n) == IF has_info(info, n) THEN info[n].content_score ELSE 0
NoDuplicates(s) == \A i, j \in 1..Len(s) : s[i] = s[j] => i = j
Returned == pc = "done"

Qualified(e) ==
    /\ e.op = "bubble"
    /\ e.name \in {"section", "p", "td", "pre", "h2", "h3", "h4", "h5", "h6"}
    /\ e.parent # 0
    /\ is_element(dom, e.parent)
    /\ e.text_len >= 25

\* C2: while no scoreable element with an element parent has bubbled with
\* text_len >= 25, the candidate list is empty, and parse then returns the
\* node it walked as top level, under its own identity and tag.
C2_NoQualifiedNoCandidate ==
    (\A e \in Events : ~Qualified(e)) =>
        /\ candidates = <<>>
        /\ Returned => result = top_level /\ result = 1 /\ dom[result].name = "body"

\* a scoreable element bubbled one character short, and the top level came back
C2_Witness ==
    /\ Returned
    /\ \A e \in Events : ~Qualified(e)
    /\ \E e \in Events : e.op = "bubble" /\ e.name = "p" /\ e.parent # 0
                         /\ e.text_len = 24
    /\ result = top_level

\* C4: every statistics record has text_len >= link_len, at every point of
\* the walk and after it.
C4_TextCoversLinks ==
    \A n \in DOMAIN info : info[n].text_len >= info[n].link_len

\* a scored candidate with link text under it, and text that is no link
C4_Witness ==
    /\ pc = "scored"
    /\ \E n \in Range(candidates) :
          info[n].link_len > 0 /\ info[n].text_len > info[n].link_len

\* C5, as stated: during the walk and at its end a node is flagged
\* is_candidate iff it has a positive content_score and is in the candidate
\* list, and the list holds no node twice.
C5_FlagIffListed ==
    pc \in {"walk", "walked"} =>
        /\ \A n \in Ids(dom) :
              Flagged(n) <=> (ContentScore(n) > 0 /\ n \in Range(candidates))
        /\ NoDuplicates(candidates)

\* the bubble step of n removed it as conditionally unacceptable
Tombstoned(n) ==
    \E e \in Events : e.op = "bubble" /\ e.node = n /\ e.fate = "unacceptable"

\* C5, amended: during the walk and at its end a flagged node has a positive
\* content_score and is in the candidate list; a node of the list has a
\* positive content_score and is flagged unless its own bubble step removed it
\* as conditionally unacceptable, which clears the flag; the list holds no
\* node twice.
C5_FlagImpliesListed ==
    pc \in {"walk", "walked"} =>
        /\ \A n \in Ids(dom) :
              Flagged(n) => ContentScore(n) > 0 /\ n \in Range(candidates)
        /\ \A n \in Range(candidates) :
              ContentScore(n) > 0 /\ (~Flagged(n) <=> Tombstoned(n))
        /\ NoDuplicates(candidates)

\* a candidate whose flag was cleared stays in the list
C5_Witness ==
    /\ pc = "walk"
    /\ \E n \in Range(candidates) : ~Flagged(n) /\ Tombstoned(n)
    /\ \E n \in Range(candidates) : Flagged(n)

\* C3: two documents that differ only by script, style, noscript or comment
\* nodes give structurally equal results under the same configuration: the
\* subtree returned for the stripped document equals the one returned for
\* the document itself, tag by tag, attribute by attribute, text by text.
C3_JunkLeavesResultUnchanged ==
    (twin.phase = 2 /\ pc = "done") => Canon(dom, result) = twin.first

\* the attribute values that the step rewrites: <<node, attribute>>, the
\* attribute present before and after the step with two different values
Rewritten ==
    {x \in Ids(dom) \X AttrNames :
        /\ x[1] \in Ids(dom')
        /\ dom[x[1]].attrs[x[2]] # None
        /\ dom'[x[1]].attrs[x[2]] # None
        /\ dom'[x[1]].attrs[x[2]] # dom[x[1]].attrs[x[2]]}

\* C6: a step rewrites an attribute value only when a base URL is configured,
\* the step is the bubble step of the element, which survived it, the pair is
\* href on an a or src on an img, and the old value is non-empty, does not
\* start with '#' and does not begin with a scheme.
C6_OnlyHrefOfAOrSrcOfImg ==
    [][\A x \in Rewritten :
          /\ cfg.base_url
          /\ last'.op = "bubble" /\ last'.node = x[1] /\ last'.fate = "kept"
          /\ \/ dom[x[1]].name = "a" /\ x[2] = "href"
             \/ dom[x[1]].name = "img" /\ x[2] = "src"
          /\ dom[x[1]].attrs[x[2]] # ""
          /\ ~starts_with_hash(dom[x[1]].attrs[x[2]])
          /\ ~PROTOCOL(dom[x[1]].attrs[x[2]])]_vars

TreeElements == {n \in Range(descendants(dom, top_level)) : is_element(dom, n)}

\* C8: with strip_unlikelys enabled an unlikely candidate other than the top
\* level is never captured and never bubbled, and once the walk is over none
\* is left below the top level; with strip_unlikelys disabled a capture step
\* leaves in place every unlikely child that no other rule touches.
C8_UnlikelyNeverVisited ==
    /\ [](cfg.strip_unlikelys =>
            /\ \A e \in Events :
                  (e.op \in {"capture", "bubble"} /\ e.node # top_level
                     /\ is_element(dom, e.node))
                  => ~is_unlikely_candidate(dom, e.node)
            /\ pc \in {"walked", "scored", "done"} =>
                  \A n \in TreeElements : ~is_unlikely_candidate(dom, n))
    /\ [][(~cfg.strip_unlikelys /\ pc = "walk" /\ ~bubbling) =>
            \A c \in Range(dom[current].kids) :
                (/\ is_element(dom, c)
                 /\ is_unlikely_candidate(dom, c)
                 /\ ~IsUseless(dom, c)
                 /\ ~extract_byline(dom, c).some
                 /\ dom[c].name \notin {"div", "font"})
                => dom'[c].parent = current]_vars

\* the metas of the document whose name, property or itemprop is a title key
TitleMetas(doc) ==
    SelectSeq(select(doc, "meta"),
              LAMBDA m : \E a \in {"name", "property", "itemprop"} :
                            m[a] # None /\ m[a] \in TITLE_KEYS)

\* the title that the headings give: the h1 when there is exactly one, nothing
\* with two or more h1, else the h2 when there is exactly one
HeadingTitle(doc) ==
    LET h1s == select(doc, "h1")
        h2s == select(doc, "h2")
    IN IF Len(h1s) = 1 THEN Some(h1s[1].text)
       ELSE IF Len(h1s) = 0 /\ Len(h2s) = 1 THEN Some(h2s[1].text)
       ELSE NoString

\* the two titles after the copy-over
CopiedOver(page, article) ==
    [page_title |-> IF page.some THEN page ELSE article,
     article_title |-> IF article.some THEN article ELSE page]

\* the text of the first title element
FirstTitle(doc) ==
    IF select(doc, "title") # <<>> THEN Some(select(doc, "title")[1].text)
    ELSE NoString

FontsToRename ==
    {c \in Range(dom[current].kids) :
        /\ is(dom, c, "font")
        /\ ~extract_byline(dom, c).some
        /\ ~(cfg.strip_unlikelys /\ is_unlikely_candidate(dom, c))}

\* in the tree after the step, span s stands where font c stood: under the
\* captured node, with c's attributes and c's children in c's order, and on
\* the same side of every sibling that the step left in place
Replaces(s, c) ==
    /\ s \notin Ids(dom)
    /\ is(dom', s, "span")
    /\ dom'[s].attrs = dom[c].attrs
    /\ dom'[s].kids = dom[c].kids
    /\ \A k \in Range(dom[c].kids) : dom'[k].parent = s
    /\ dom'[s].parent = current
    /\ dom'[c].parent = 0
    /\ \A x \in Range(dom[current].kids) \cap Range(dom'[current].kids) :
          IndexOf(dom[current].kids, x) < IndexOf(dom[current].kids, c)
          <=> IndexOf(dom'[current].kids, x) < IndexOf(dom'[current].kids, s)

\* C10: a capture step replaces every font child that no earlier capture rule
\* removes by a span at the same position among its siblings, with the same
\* attributes and the same children in the same order; once the walk is over
\* no font element is left below the top level.
C10_FontBecomesSpan ==
    /\ [][(pc = "walk" /\ ~bubbling) =>
            \A c \in FontsToRename : \E s \in Ids(dom') : Replaces(s, c)]_vars
    /\ [](pc \in {"walked", "scored", "done"} =>
            \A n \in TreeElements : dom[n].name # "font")

\* a span with a style attribute and a child stands in the tree after a
\* capture step, and the font it replaced lies detached and empty
C10_Witness ==
    /\ trace # <<>>
    /\ last.op = "capture"
    /\ \E s, c \in Ids(dom) :
          /\ is(dom, s, "span") /\ dom[s].parent = last.node
          /\ dom[s].attrs.style # None /\ dom[s].kids # <<>>
          /\ Len(dom[last.node].kids) >= 2
          /\ is(dom, c, "font") /\ dom[c].parent = 0 /\ dom[c].kids = <<>>
          /\ dom[c].attrs = dom[s].attrs

\* the positions of the history at which step op ran on node n
Visits(op, n) == {i \in 1..Len(trace) : trace[i].op = op /\ trace[i].node = n}

\* the nodes of the tree at and below the top level
TreeNodes == {top_level} \cup Range(descendants(dom, top_level))

\* C11: the walk captures a node at most once and bubbles it at most once,
\* the capture first; a node is bubbled after it was captured and before its
\* parent is bubbled, and when it is bubbled every child it has was bubbled; a
\* node removed by its own bubble step is followed by the sibling or parent it
\* had before; the top level is bubbled last, and by then every node of the
\* tree was captured and bubbled.
C11_CaptureThenBubbleOnce ==
    /\ [](\A n \in Ids(dom) :
            /\ Cardinality(Visits("capture", n)) <= 1
            /\ Cardinality(Visits("bubble", n)) <= 1
            /\ \A b \in Visits("bubble", n) :
                  /\ \E c \in Visits("capture", n) : c < b
                  /\ trace[b].parent # 0 =>
                        /\ \E c \in Visits("capture", trace[b].parent) : c < b
                        /\ \A pb \in Visits("bubble", trace[b].parent) : b < pb
                  /\ trace[b].parent = 0 =>
                        /\ n = top_level
                        /\ \A i \in 1..Len(trace) :
                              trace[i].op \in {"capture", "bubble"} => i <= b)
    /\ [](pc = "walked" =>
            /\ last.op = "bubble" /\ last.node = top_level
            /\ \A n \in TreeNodes :
                  Visits("capture", n) # {} /\ Visits("bubble", n) # {})
    /\ [][(pc = "walk" /\ bubbling) =>
            /\ \A k \in Range(dom[current].kids) : Visits("bubble", k) # {}
            /\ (pc' = "walk" /\ dom'[current].parent = 0 /\ current # top_level) =>
                  /\ current' = IF next_sibling(dom, current) # 0
                                THEN next_sibling(dom, current)
                                ELSE dom[current].parent
                  /\ current' # current]_vars

\* the walk is over, and on its way an element was removed by its own bubble
\* step and a div was replaced by its single p
C11_Witness ==
    /\ pc = "walked"
    /\ \E e \in Events : e.op = "bubble" /\ e.fate # "kept"
    /\ \E n \in TreeNodes : n > 1 /\ Len(dom[n].kids) >= 2
    /\ \E n \in Ids(dom) : is(dom, n, "div") /\ dom[n].parent = 0
                           /\ Visits("capture", n) = {}

\* the children of the captured node that the byline rule would act on
BylineCarriers ==
    SelectSeq(dom[current].kids,
              LAMBDA c : is_element(dom, c) /\ extract_byline(dom, c).some)

\* the capture step leaves child c to the rules after the byline rule
PassedOver(c) ==
    \/ dom'[c].parent = current
    \/ cfg.strip_unlikelys /\ is_unlikely_candidate(dom, c)
    \/ dom[c].name \in {"div", "font"}

\* C12: the byline rule acts only while no byline is recorded: a recorded
\* byline never changes and no later rel="author" element is removed by the
\* rule; a capture step that starts without a byline records the text of the
\* first carrier among the children and removes only that one.
C12_BylineRecordedOnce ==
    [][/\ byline.some => byline' = byline
       /\ (pc = "walk" /\ ~bubbling) =>
             IF byline.some
             THEN \A c \in Range(BylineCarriers) : PassedOver(c)
             ELSE IF BylineCarriers = <<>> THEN byline' = byline
             ELSE /\ byline' = extract_byline(dom, BylineCarriers[1])
                  /\ dom'[BylineCarriers[1]].parent = 0
                  /\ \A i \in 2..Len(BylineCarriers) : PassedOver(BylineCarriers[i])]_vars

\* the div children of the captured node that reach the div rule
DivsToTransform ==
    {c \in Range(dom[current].kids) :
        /\ is(dom, c, "div")
        /\ ~extract_byline(dom, c).some
        /\ ~(cfg.strip_unlikelys /\ is_unlikely_candidate(dom, c))}

WhitespaceOnly(t) == \A i \in 1..Len(t) : t[i] = " "

\* after the step node s is a child of the captured node where c was: on the
\* same side of every sibling that the step left in place
StandsFor(s, c) ==
    /\ dom'[s].parent = current
    /\ \A x \in Range(dom[current].kids) \cap Range(dom'[current].kids) :
          IndexOf(dom[current].kids, x) < IndexOf(dom[current].kids, c)
          <=> IndexOf(dom'[current].kids, x) < IndexOf(dom'[current].kids, s)

\* outcome 1 applies: one element child, a p, and only whitespace text
SinglePOf(c) ==
    LET es == {k \in Range(dom[c].kids) : dom[k].kind = "element"}
    IN /\ Cardinality(es) = 1
       /\ \A k \in es : dom[k].name = "p"
       /\ \A k \in Range(dom[c].kids) :
             dom[k].kind = "text" => WhitespaceOnly(dom[k].text)

\* outcome 2 applies: no descendant is a block element
NoBlockBelow(c) ==
    \A k \in Range(descendants(dom, c)) :
        dom[k].kind = "element" =>
            dom[k].name \notin {"a", "blockquote", "dl", "div", "img", "ol", "p",
                                "pre", "table", "ul", "select"}

\* C13: a capture step does to each div child that reaches the div rule
\* exactly one of: (1) one element child, a p, and only whitespace text: the
\* p takes the div's place; (2) else no block descendant: a new p with the
\* div's attributes and children takes its place; (3) else the div stays as
\* it is, each non-whitespace text child wrapped in place in a new p without
\* attributes, every other child untouched.
C13_DivTransformOutcome ==
    [][(pc = "walk" /\ ~bubbling) =>
         \A c \in DivsToTransform :
            IF SinglePOf(c)
            THEN \E k \in Range(dom[c].kids) :
                    /\ dom[k].kind = "element"
                    /\ StandsFor(k, c)
                    /\ dom'[k] = [dom[k] EXCEPT !.parent = current]
                    /\ dom'[c].parent = 0
            ELSE IF NoBlockBelow(c)
            THEN \E s \in Ids(dom') \ Ids(dom) :
                    /\ StandsFor(s, c)
                    /\ dom'[s].kind = "element" /\ dom'[s].name = "p"
                    /\ dom'[s].attrs = dom[c].attrs
                    /\ dom'[s].kids = dom[c].kids
                    /\ \A k \in Range(dom[c].kids) : dom'[k].parent = s
                    /\ dom'[c].parent = 0
            ELSE /\ dom'[c].parent = current
                 /\ dom'[c].name = "div" /\ dom'[c].attrs = dom[c].attrs
                 /\ Len(dom'[c].kids) = Len(dom[c].kids)
                 /\ \A i \in 1..Len(dom[c].kids) :
                       LET k == dom[c].kids[i]
                           w == dom'[c].kids[i]
                       IN IF dom[k].kind = "text" /\ ~WhitespaceOnly(dom[k].text)
                          THEN /\ w \notin Ids(dom)
                               /\ dom'[w].kind = "element" /\ dom'[w].name = "p"
                               /\ dom'[w].attrs = NoAttrs
                               /\ dom'[w].kids = <<k>>
                               /\ dom'[k] = [dom[k] EXCEPT !.parent = w]
                          ELSE w = k /\ dom'[k] = dom[k]]_vars

\* after a capture step a div holds a new p without attributes around a text
\* that was its own child, next to a p it had before
C13_Witness ==
    /\ trace # <<>>
    /\ last.op = "capture"
    /\ \E c \in Range(dom[last.node].kids) :
          /\ is(dom, c, "div")
          /\ \E w, p \in Range(dom[c].kids) :
                /\ is(dom, w, "p") /\ dom[w].attrs = NoAttrs /\ w > c
                /\ Len(dom[w].kids) = 1 /\ is_text(dom, dom[w].kids[1])
                /\ dom[w].kids[1] < w
                /\ is(dom, p, "p") /\ p < w /\ p # w

\* the policy of the stuffing check for the element that bubbles, on its
\* record after the step (its statistics are complete by then) and on its
\* children as the step found them: TRUE when the element is to be removed
RemovedByPolicy ==
    LET tag == dom[current].name
        i == info'[current]
        media == i.img_count + i.embed_count + i.iframe_count
    IN CASE tag \in {"h1", "footer", "button"} -> TRUE
         [] tag \in {"div", "section", "header", "h2", "h3", "h4", "h5", "h6"} ->
              /\ i.text_len = 0
              /\ \A k \in Range(dom[current].kids) :
                    dom[k].kind = "element" /\ dom[k].name \in {"br", "hr"}
         [] tag \in {"thead", "tbody", "th", "tr", "td"} ->
              i.text_len = 0 /\ media = 0
         [] tag \in {"p", "pre", "blockquote"} ->
              WhitespaceOnly(text_contents(dom, current)) /\ media = 0
         [] OTHER -> FALSE

\* C14: the bubble step of an element removes it as not stuffed exactly when
\* the policy of its tag says so: h1, footer, button always; div, section,
\* header, h2..h6 iff no text and no child other than br/hr elements; thead,
\* tbody, th, tr, td iff no text and no img/embed/iframe below; p, pre,
\* blockquote iff no non-whitespace text and no img/embed/iframe below; any
\* other tag never.
C14_RemovedIffPolicy ==
    [][(pc = "walk" /\ bubbling /\ is_element(dom, current)) =>
          (last'.fate = "not_stuffed" <=> RemovedByPolicy)]_vars

Statistics ==
    {"text_len", "link_len", "commas", "p_count", "img_count", "li_count",
     "input_count", "embed_count", "iframe_count", "br_count", "hr_count"}

RecordOf(inf, n) == IF has_info(inf, n) THEN inf[n] ELSE DefaultInfo

Attached(n) == n \in TreeNodes

\* what one bubble step of the element current adds to its parent's record
PropagatedToParent ==
    LET parent == dom[current].parent
        tag == dom[current].name
        own(t) == IF tag = t THEN 1 ELSE 0
        i == RecordOf(info', current)
        before == RecordOf(info, parent)
        after == RecordOf(info', parent)
    IN /\ RecordOf(info, current) = [i EXCEPT !.is_candidate = RecordOf(info, current).is_candidate]
       /\ after.text_len = before.text_len + i.text_len
       /\ after.commas = before.commas + i.commas
       /\ after.link_len = before.link_len
                           + (IF tag = "a" THEN i.text_len ELSE i.link_len)
       /\ after.p_count = before.p_count + own("p") + i.p_count
       /\ after.img_count = before.img_count + own("img") + i.img_count
       /\ after.li_count = before.li_count + own("li") + i.li_count
       /\ after.input_count = before.input_count + own("input") + i.input_count
       /\ after.iframe_count = before.iframe_count + own("iframe") + i.iframe_count
       /\ after.br_count = before.br_count + own("br") + i.br_count
       /\ after.hr_count = before.hr_count + own("hr") + i.hr_count
       /\ after.embed_count >= before.embed_count + i.embed_count
       /\ (is_tag_to_score(tag) /\ i.text_len >= MinTextLen) =>
             after.content_score > before.content_score

RawScore ==
    LET i == RecordOf(info, current)
        points == (i.text_len + i.link_len) \div 100
    IN 1 + i.commas + (IF points < 3 THEN points ELSE 3)

ElementAncestors ==
    SelectSeq(ancestors(dom, current), LAMBDA a : is_element(dom, a))

\* the share of the raw score, in sixths, of the j-th nearest element ancestor
ShareOf(j) == CASE j = 1 -> 6 * RawScore
                [] j = 2 -> 3 * RawScore
                [] j = 3 -> RawScore
                [] OTHER -> 0

\* C16: score_node on an element with an element parent and text_len >= 25
\* adds 1 + commas + min((text_len + link_len) div 100, 3), divided by 1, 2
\* and 6, to its first three element ancestors (to fewer when fewer exist) and
\* to no other node; each receiving ancestor not yet flagged is appended to
\* the candidates, nearest first, and flagged; with text_len < 25 or without
\* an element parent nothing changes.
C16_ScoreDistribution ==
    [][pc = "score_node" =>
        LET as == ElementAncestors
            receives == {as[j] : j \in 1..(IF Len(as) < 3 THEN Len(as) ELSE 3)}
            scores == dom[current].parent # 0
                      /\ RecordOf(info, current).text_len >= 25
        IN IF scores
           THEN /\ \A j \in 1..Len(as) :
                      RecordOf(info', as[j]) =
                         [RecordOf(info, as[j]) EXCEPT
                             !.content_score = @ + ShareOf(j),
                             !.is_candidate = @ \/ j <= 3]
                /\ RecordOf(info', current) = RecordOf(info, current)
                /\ candidates' =
                      candidates \o
                      SelectSeq(as, LAMBDA a : a \in receives
                                               /\ ~RecordOf(info, a).is_candidate)
           ELSE /\ candidates' = candidates
                /\ \A n \in Ids(dom) : RecordOf(info', n) = RecordOf(info, n)]_vars

\* the length points are capped, a fourth ancestor exists and receives
\* nothing, and of the three that receive one was a candidate before
C16_Witness ==
    /\ pc = "node_scored"
    /\ Len(ancestors(dom, current)) >= 4
    /\ info[current].text_len + info[current].link_len >= 400
    /\ info[current].commas = 1
    /\ Len(candidates) = 3
    /\ candidates[1] = dom[dom[current].parent].parent
    /\ ContentScore(dom[current].parent) = 6 * 5
    /\ ~has_info(info, ancestors(dom, current)[4])

\* link_len / text_len > num / den, false when text_len is 0
DensityOver(i, num, den) ==
    i.text_len # 0 /\ den * i.link_len > num * i.text_len

\* the stated rule for the element current, on its record before the step
StatedUnacceptable ==
    LET tag == dom[current].name
        i == RecordOf(info, current)
        list == tag \in {"ul", "ol"}
        weight == IF cfg.weight_classes THEN class_score(dom, current) ELSE 0
    IN /\ tag \in {"form", "fieldset", "table", "div", "ul", "ol"}
       /\ \/ weight < 0
          \/ /\ i.commas < 10
             /\ \/ i.img_count > 1 /\ 2 * i.p_count < i.img_count
                \/ ~list /\ i.li_count > i.p_count + 100
                \/ i.input_count * 3 > i.p_count
                \/ ~list /\ i.text_len < 25 /\ (i.img_count = 0 \/ i.img_count > 2)
                \/ ~list /\ weight < 25 /\ DensityOver(i, 1, 5)
                \/ weight >= 25 /\ DensityOver(i, 1, 2)
                \/ i.embed_count = 1 /\ i.text_len < 75
                \/ i.embed_count > 1

\* C17: the bubble step of a stuffed element removes it as conditionally
\* unacceptable exactly when clean_conditionally is on and the stated rule
\* holds: the tag is one of form, fieldset, table, div, ul, ol and either the
\* class score is negative, or commas < 10 and one of the seven predicates
\* holds (a text_len of 0 makes both link-density predicates false, ul and ol
\* are exempt from the three not-list predicates); the parent's record gets
\* is_shabby in exactly that case, and no record gets it otherwise.
C17_ConditionallyAcceptable ==
    [][pc = "bubble_one" =>
        LET bad == cfg.clean_conditionally /\ StatedUnacceptable
        IN /\ last'.fate = (IF bad THEN "unacceptable" ELSE "kept")
           /\ (2 \in Range(dom'[1].kids)) <=> ~bad
           /\ \A n \in Ids(dom) :
                 RecordOf(info', n).is_shabby <=> (bad /\ n = dom[current].parent)]_vars

\* a negative class weight removes an element that has ten commas
C17_Witness ==
    /\ pc = "bubbled_one"
    /\ last.fate = "unacceptable"
    /\ info[2].commas >= 10
    /\ dom[2].attrs.class = "share"
    /\ info[1].is_shabby

\* C18: a node removed during the walk is out of the selection: when the walk
\* is over every candidate whose is_candidate flag is set is the top level or
\* attached below it, and the element that parse returns is the top level,
\* the div that took the place of a chosen top level, or attached below the
\* top level.
C18_RemovedNeverSelected ==
    /\ pc \in {"walked", "scored"} =>
          \A n \in Range(candidates) : Flagged(n) => Attached(n)
    /\ Returned =>
          \/ Attached(result)
          \/ last.op = "select" /\ last.node = top_level /\ dom[result].parent = 0

\* the ancestors of the best candidate below body, nearest first
BelowBody(n) ==
    TakeWhile(ancestors(dom, n), {a \in Ids(dom) : ~is(dom, a, "body")})

\* how many of the candidates after the best have the node common above them
Shared(common) ==
    Cardinality({k \in 2..Len(candidates) :
                    common \in Range(ancestors(dom, candidates[k]))})

\* C19: with fewer than four kept candidates, or the best being body, or its
\* parent being body or absent, find_common_candidate chooses the best
\* candidate; otherwise it chooses the nearest ancestor of the best below body
\* that is an ancestor of at least three of the other candidates, and the
\* best candidate when there is none.
C19_CommonAncestorOfThree ==
    [][pc = "scored" =>
        LET best == candidates[1]
            common == SelectSeq(BelowBody(best), LAMBDA a : Shared(a) >= 3)
        IN result' =
             IF \/ Len(candidates) < 4
                \/ is(dom, best, "body")
                \/ dom[best].parent = 0
                \/ is(dom, dom[best].parent, "body")
                \/ common = <<>>
             THEN best ELSE common[1]]_vars

\* the ancestors of the chosen node that the score walk visits: those below
\* body, up to the first whose content_score is below a third of the chosen
\* node's
VisitedAbove ==
    LET ups == BelowBody(current)
        low == {j \in 1..Len(ups) :
                   3 * ContentScore(ups[j]) < ContentScore(current)}
    IN SubSeq(ups, 1, IF low = {} THEN Len(ups)
                      ELSE (CHOOSE j \in low : \A k \in low : j <= k) - 1)

\* the last visited ancestor that scores strictly more than the node visited
\* before it, or the chosen node
PromotedByScore ==
    LET vs == VisitedAbove
        before(j) == IF j = 1 THEN current ELSE vs[j - 1]
        up == {j \in 1..Len(vs) : ContentScore(vs[j]) > ContentScore(before(j))}
    IN IF up = {} THEN current
       ELSE vs[CHOOSE j \in up : \A k \in up : k <= j]

\* the top of the chain of only-child ancestors above the promoted node
TopOfChain ==
    LET as == ancestors(dom, PromotedByScore)
        plain(a) == /\ ~is(dom, a, "body")
                    /\ Len(dom[a].kids) = 1
                    /\ ~RecordOf(info, a).is_shabby
        n == Cardinality({j \in 1..Len(as) : \A k \in 1..j : plain(as[k])})
    IN IF n = 0 THEN PromotedByScore ELSE as[n]

\* C20: correct_candidate returns the chosen node or an ancestor of it below
\* body: it visits the ancestors below body up to the first whose
\* content_score is below a third of the chosen node's, promotes a visited
\* ancestor exactly when it scores strictly more than the node visited before
\* it, then climbs the maximal chain of ancestors that have exactly one child,
\* are not body and are not shabby; the node so found is returned, replaced by
\* a div with the same children when its tag is not div, article, section or p.
C20_CorrectedCandidate ==
    [][pc = "chosen" =>
        LET found == TopOfChain
        IN /\ found = current \/ found \in Range(BelowBody(current))
           /\ IF dom[found].name \in {"div", "article", "section", "p"}
              THEN result' = found /\ dom' = dom
              ELSE /\ result' \notin Ids(dom)
                   /\ dom'[result'].name = "div"
                   /\ dom'[result'].kids = dom[found].kids
                   /\ dom'[result'].parent = dom[found].parent]_vars

\* the parent is promoted by its higher score, the only-child chain goes on
\* to the grandparent and stops below a shabby ancestor
C20_Witness ==
    /\ pc = "corrected"
    /\ last.node = 5
    /\ ContentScore(4) > ContentScore(5)
    /\ ContentScore(3) <= ContentScore(4)
    /\ 3 * ContentScore(3) >= ContentScore(5)
    /\ dom[result].kids = <<4>>
    /\ info[2].is_shabby
    /\ dom[3].name = "ul"
    /\ dom[result].name = "div"
    /\ dom[result].parent = 2
    /\ result > 5

\* the final score of a flagged candidate, from its record
FinalOf(n) == FinalScore(dom, info[n], cfg, n)

\* C21: when scoring starts with at least one candidate whose is_candidate
\* flag is set, the list kept by scoring is not empty, is in descending order
\* of final score and starts with a candidate of maximal final score, and the
\* next step returns the corrected best candidate, not the top level as such.
C21_BestCandidateKept ==
    [][/\ (pc = "walked" /\ \E n \in Range(candidates) : Flagged(n)) =>
             /\ candidates' # <<>>
             /\ \A i, j \in 1..Len(candidates') :
                   i < j => ScoreGeq(FinalOf(candidates'[i]), FinalOf(candidates'[j]))
             /\ \A n \in Range(candidates) :
                   Flagged(n) => ScoreGeq(FinalOf(candidates'[1]), FinalOf(n))
       /\ (pc = "scored" /\ \E n \in Ids(dom) : Flagged(n)) =>
             last'.op = "select"]_vars

====
